---------------------------- MODULE Spec2Model ----------------------------
(***************************************************************************)
(* A model of usb_link_speed_tray/main.py: the discovery engine            *)
(* (_block_device_usb_path, _read_speed_mbps, _get_block_dev_numbers,      *)
(* _device_path_matches_block, _dm_device_backed_by_block,                 *)
(* _parse_mountinfo_line, get_mount_points, get_usb_storage_speeds,        *)
(* format_speed) and the poll tick that drives it (_menu_state,            *)
(* _get_menu_spec, update_menu), run against a kernel whose sysfs/procfs   *)
(* state changes underneath the program.                                   *)
(*                                                                         *)
(* Strings are sequences of one-character strings, so that startswith,     *)
(* isdigit, strip, replace and sorted are computed character by character. *)
(* An optional value is a sequence: <<>> is None and <<x>> is the value x. *)
(* A call that can raise returns [exc |-> raised?, val |-> result].        *)
(***************************************************************************)
EXTENDS Integers, Sequences, FiniteSets, TLC

VARIABLES
    kernel,         \* the sysfs / procfs state the program reads
    pc,             \* where the poll tick (update_menu) stands
    devices,        \* update_menu's local: the list get_usb_storage_speeds returned
    lastMenuState,  \* _last_menu_state[0]
    menu,           \* the menu spec last handed to indicator.set_menu
    ticks,          \* poll ticks started so far
    changes,        \* kernel changes so far
    arg,            \* the argument of a single function call (SpecFormat, SpecMatch)
    ret             \* the value that call returned

vars == <<kernel, pc, devices, lastMenuState, menu, ticks, changes, arg, ret>>

(***************************** bounds **************************************)
\* Kernel changes in one behaviour of Spec.
MaxChanges == 2
\* Poll ticks in one behaviour of Spec.
MaxTicks == 2
\* Lines of the mount table at one time.
MaxMounts == 2
\* Largest speed handed to format_speed in SpecFormat.
MaxMbps == 40000
\* Longest directory-entry / device-node name drawn in SpecMatch.
MaxNameLen == 4

(***************************** strings *************************************)
None == <<>>
Some(x) == <<x>>

Digits == <<"0", "1", "2", "3", "4", "5", "6", "7", "8", "9">>

\* str.isdigit() of one character (ASCII).
IsDigit(c) == \E i \in 1..10 : Digits[i] = c

DigitVal(c) == (CHOOSE i \in 1..10 : Digits[i] = c) - 1

\* U+2014 (the dash _get_menu_spec puts before the mount points), one character.
EmDash == "--"

\* The characters the model's strings use, in code-point order.
Alphabet ==
    <<"\n", " ", "+", ",", "-", ".", "/",
      "0", "1", "2", "3", "4", "5", "6", "7", "8", "9", ":", "?",
      "B", "G", "M", "N", "Q", "S", "U", "\\",
      "a", "b", "c", "d", "e", "g", "i", "m", "n", "o", "p", "r", "s",
      "t", "u", "v", "x", EmDash>>

\* ord(c), up to an order-preserving renumbering.
Ord(c) == CHOOSE i \in 1..Len(Alphabet) : Alphabet[i] = c

\* str.isspace() of one character.
IsSpace(c) == c \in {" ", "\n"}

\* s.startswith(p)
StartsWith(s, p) == Len(s) >= Len(p) /\ SubSeq(s, 1, Len(p)) = p

RECURSIVE LStrip(_)
LStrip(s) == IF s # <<>> /\ IsSpace(Head(s)) THEN LStrip(Tail(s)) ELSE s

RECURSIVE RStrip(_)
RStrip(s) ==
    IF s # <<>> /\ IsSpace(s[Len(s)]) THEN RStrip(SubSeq(s, 1, Len(s) - 1)) ELSE s

\* s.strip()
Strip(s) == RStrip(LStrip(s))

\* a < b for two strings, as Python compares them (by code point, then length).
RECURSIVE StrLess(_, _)
StrLess(a, b) ==
    IF b = <<>> THEN FALSE
    ELSE IF a = <<>> THEN TRUE
    ELSE IF Head(a) = Head(b) THEN StrLess(Tail(a), Tail(b))
    ELSE Ord(Head(a)) < Ord(Head(b))

RECURSIVE Insert(_, _)
Insert(x, sorted) ==
    IF sorted = <<>> THEN <<x>>
    ELSE IF StrLess(x, Head(sorted)) THEN <<x>> \o sorted
    ELSE <<Head(sorted)>> \o Insert(x, Tail(sorted))

\* sorted(xs) for a list of strings (stable: an equal element goes after).
RECURSIVE Sorted(_)
Sorted(xs) == IF xs = <<>> THEN <<>> ELSE Insert(xs[Len(xs)], Sorted(SubSeq(xs, 1, Len(xs) - 1)))

\* str(n) for n >= 0.
RECURSIVE IntToStr(_)
IntToStr(n) ==
    IF n < 10 THEN <<Digits[n + 1]>>
    ELSE IntToStr(n \div 10) \o <<Digits[(n % 10) + 1]>>

RECURSIVE DigitsValue(_, _)
DigitsValue(s, acc) ==
    IF s = <<>> THEN acc ELSE DigitsValue(Tail(s), 10 * acc + DigitVal(Head(s)))

AllDigits(s) == \A i \in 1..Len(s) : IsDigit(s[i])

\* int(text): surrounding whitespace dropped, an optional sign, then decimal
\* digits; anything else raises ValueError.  (int() also takes "_" between
\* digits and non-ASCII digits, which no sysfs file holds.)
ParseInt(text) ==
    LET t == Strip(text)
        signed == t # <<>> /\ Head(t) \in {"+", "-"}
        body == IF signed THEN Tail(t) ELSE t
    IN  IF body = <<>> \/ ~AllDigits(body)
        THEN [exc |-> TRUE, val |-> 0]
        ELSE [exc |-> FALSE,
              val |-> IF signed /\ Head(t) = "-"
                      THEN 0 - DigitsValue(body, 0) ELSE DigitsValue(body, 0)]

\* ", ".join(xs)
RECURSIVE Join(_)
Join(xs) ==
    IF xs = <<>> THEN <<>>
    ELSE IF Len(xs) = 1 THEN xs[1]
    ELSE xs[1] \o <<",", " ">> \o Join(Tail(xs))

(***************************** format_speed ********************************)
\* str(n) for any integer.
PyStr(n) == IF n < 0 THEN <<"-">> \o IntToStr(0 - n) ELSE IntToStr(n)

RECURSIVE Pow2Mod1000(_)
Pow2Mod1000(k) == IF k = 0 THEN 1 ELSE (2 * Pow2Mod1000(k - 1)) % 1000

\* The tenths that f"{mbps / 1000:.1f}" prints for 1000 <= mbps <= 9999.
\* mbps / 1000 is the double nearest to the quotient (53-bit significand),
\* and .1f rounds that double's exact value to one decimal, ties to even.
\* The double is below the quotient when the remainder of
\* mbps * 2^(52-e) by 1000 is under 500, above it when over 500, and exact
\* when it is 0 (e: the quotient's binary exponent).
RoundedTenths(mbps) ==
    LET floorT == mbps \div 100
        rem == mbps % 100
        e == IF mbps < 2000 THEN 0 ELSE IF mbps < 4000 THEN 1
             ELSE IF mbps < 8000 THEN 2 ELSE 3
        r == ((mbps % 1000) * Pow2Mod1000(52 - e)) % 1000
    IN  IF rem < 50 THEN floorT
        ELSE IF rem > 50 THEN floorT + 1
        ELSE IF r = 0 THEN (IF floorT % 2 = 1 THEN floorT + 1 ELSE floorT)
        ELSE IF r < 500 THEN floorT
        ELSE floorT + 1

OneDecimal(mbps) ==
    LET t == RoundedTenths(mbps)
    IN  IntToStr(t \div 10) \o <<".">> \o IntToStr(t % 10)

Gbps == <<" ", "G", "b", "p", "s">>
Mbps == <<" ", "M", "b", "p", "s">>

\* format_speed as its docstring has it ("5000 -> '5 Gbps'"): whole Gbps from
\* 1000 on, with no decimal.
FormatSpeedWholeGbps(mbps) ==
    IF mbps = None THEN <<"?">>
    ELSE IF mbps[1] >= 1000 THEN IntToStr(mbps[1] \div 1000) \o Gbps
    ELSE PyStr(mbps[1]) \o Mbps

\* format_speed(mbps); mbps is None or Some(integer).
FormatSpeed(mbps) ==
    IF mbps = None THEN <<"?">>
    ELSE IF mbps[1] >= 10000 THEN IntToStr(mbps[1] \div 1000) \o Gbps
    ELSE IF mbps[1] >= 1000 THEN OneDecimal(mbps[1]) \o Gbps
    ELSE PyStr(mbps[1]) \o Mbps

(***************************** the kernel **********************************)
\* A file: state "absent" (exists() is False), "unreadable" (exists() is True
\* and read_text() raises OSError: no permission, or removed after the
\* exists() call) or "ok".
File(state, text) == [state |-> state, text |-> text]
NoFile == File("absent", <<>>)

\* The device symlink of a block device: "missing" (exists() is False),
\* "error" (resolve() raises OSError) or "ok" with the resolved path's parts.
DeviceLink(state, parts) == [state |-> state, parts |-> parts]
NoLink == DeviceLink("missing", <<>>)

\* An entry of /sys/block.  kind: "none" | "file" | "dir".  listable = FALSE:
\* is_dir() answers True and iterdir() raises OSError (the directory is
\* unreadable, or it was removed after the is_dir() call).  children: the
\* entries directly under it, each [name, kind, dev].  slavesState: "none"
\* (no slaves directory) | "ok" | "unlistable" (is_dir() True, iterdir() raises).
NoEntry ==
    [kind |-> "none", listable |-> TRUE, device |-> NoLink, dev |-> NoFile,
     children |-> {}, slavesState |-> "none", slaves |-> {}]

BlockEntry(k, name) == IF name \in DOMAIN k.block THEN k.block[name] ELSE NoEntry

\* (SYS_BLOCK / name).is_dir()
BlockIsDir(k, name) == k.sysBlock # "absent" /\ BlockEntry(k, name).kind = "dir"

SpeedFile(k, usb_path) ==
    IF usb_path \in DOMAIN k.usb THEN k.usb[usb_path] ELSE NoFile

PathSep == "/"

RECURSIVE BaseName(_)
\* PurePath(p).name: the characters after the last "/" (a trailing "/" dropped).
BaseName(p) ==
    IF p = <<>> THEN <<>>
    ELSE IF p[Len(p)] = PathSep THEN BaseName(SubSeq(p, 1, Len(p) - 1))
    ELSE IF \E i \in 1..Len(p) : p[i] = PathSep
         THEN SubSeq(p, (CHOOSE i \in 1..Len(p) :
                            p[i] = PathSep /\ \A j \in (i + 1)..Len(p) : p[j] # PathSep) + 1,
                     Len(p))
         ELSE p

\* Path(device_path).resolve().name: a path that is a symlink resolves to its
\* target, any other path to itself (a relative one under the working
\* directory, its final name kept); resolve() raises OSError for a link the
\* kernel cannot follow.
ResolveName(k, device_path) ==
    IF device_path \in DOMAIN k.symlinks
    THEN [exc |-> ~k.symlinks[device_path].ok,
          val |-> BaseName(k.symlinks[device_path].target)]
    ELSE [exc |-> FALSE, val |-> BaseName(device_path)]

(***************************** the engine **********************************)
\* re.match(r"^usb\d+$", part): "usb", one or more digits, and an optional
\* final newline ($ also matches before one).
IsUsbSegment(part) ==
    LET body == IF part # <<>> /\ part[Len(part)] = "\n"
                THEN SubSeq(part, 1, Len(part) - 1) ELSE part
    IN  /\ Len(body) >= 4
        /\ SubSeq(body, 1, 3) = <<"u", "s", "b">>
        /\ AllDigits(SubSeq(body, 4, Len(body)))

\* list.index(x), counting from 1; 0 when x is not in xs (ValueError).
IndexOf(xs, x) ==
    IF \E i \in 1..Len(xs) : xs[i] = x
    THEN CHOOSE i \in 1..Len(xs) : xs[i] = x /\ \A j \in 1..(i - 1) : xs[j] # x
    ELSE 0

\* _block_device_usb_path(block_name): None or Some(usb bus path).
BlockDeviceUsbPath(k, block_name) ==
    LET device == BlockEntry(k, block_name).device
        parts == device.parts
        hits == {i \in 1..Len(parts) :
                    IsUsbSegment(parts[i]) /\ IndexOf(parts, parts[i]) < Len(parts)}
        first == CHOOSE i \in hits : \A j \in hits : i <= j
    IN  IF ~BlockIsDir(k, block_name) \/ device.state = "missing" THEN None
        ELSE IF device.state = "error" THEN None
        ELSE IF hits = {} THEN None
        ELSE Some(parts[IndexOf(parts, parts[first]) + 1])

\* _read_speed_mbps(usb_path): None or Some(Mbps).
ReadSpeedMbps(k, usb_path) ==
    LET speed_file == SpeedFile(k, usb_path)
        parsed == ParseInt(speed_file.text)
    IN  IF speed_file.state = "absent" THEN None
        ELSE IF speed_file.state = "unreadable" THEN None
        ELSE IF parsed.exc THEN None
        ELSE Some(parsed.val)

\* The test of main.py line 121 on a directory entry's name.
PartitionDirMatches(name, prefix) ==
    StartsWith(name, prefix) /\ Len(name) > Len(prefix) /\ IsDigit(name[Len(prefix) + 1])

\* _get_block_dev_numbers(block_name): the set of major:minor strings; raises
\* when block_dir.iterdir() does.
GetBlockDevNumbers(k, block_name) ==
    LET block_dir == BlockEntry(k, block_name)
        own == IF block_dir.dev.state = "ok" THEN {Strip(block_dir.dev.text)} ELSE {}
        parts == {Strip(c.dev.text) :
                    c \in {c \in block_dir.children :
                              /\ c.kind = "dir"
                              /\ PartitionDirMatches(c.name, block_name)
                              /\ c.dev.state = "ok"}}
    IN  IF ~BlockIsDir(k, block_name) THEN [exc |-> FALSE, val |-> {}]
        ELSE IF ~block_dir.listable THEN [exc |-> TRUE, val |-> own]
        ELSE [exc |-> FALSE, val |-> own \cup parts]

\* The name test without name[len(block_name)].isdigit(): any longer name
\* with the prefix passes.
NameMatchesBlockByPrefix(name, block_name) ==
    \/ name = block_name
    \/ StartsWith(name, block_name) /\ Len(name) > Len(block_name)

\* The name test of main.py lines 137-141.
NameMatchesBlock(name, block_name) ==
    \/ name = block_name
    \/ /\ StartsWith(name, block_name)
       /\ Len(name) > Len(block_name)
       /\ IsDigit(name[Len(block_name) + 1])

\* _device_path_matches_block(device_path, block_name)
DevicePathMatchesBlock(k, device_path, block_name) ==
    LET r == ResolveName(k, device_path)
    IN  IF r.exc THEN FALSE ELSE NameMatchesBlock(r.val, block_name)

DevPrefix == <<"/", "d", "e", "v", "/">>
DmPrefix == <<"d", "m", "-">>

\* The name test of main.py lines 159-162 on one entry of the slaves directory.
SlaveMatchesBlock(slave_name, block_name) ==
    \/ slave_name = block_name
    \/ /\ StartsWith(slave_name, block_name)
       /\ Len(slave_name) > Len(block_name)
       /\ IsDigit(slave_name[Len(block_name) + 1])

\* _dm_device_backed_by_block(device_path, block_name); raises when
\* slaves_dir.iterdir() does.
DmDeviceBackedByBlock(k, device_path, block_name) ==
    LET r == ResolveName(k, device_path)
        dm == BlockEntry(k, r.val)
    IN  IF ~StartsWith(device_path, DevPrefix) THEN [exc |-> FALSE, val |-> FALSE]
        ELSE IF r.exc THEN [exc |-> FALSE, val |-> FALSE]
        ELSE IF ~StartsWith(r.val, DmPrefix) THEN [exc |-> FALSE, val |-> FALSE]
        ELSE IF ~BlockIsDir(k, r.val) \/ dm.slavesState = "none"
             THEN [exc |-> FALSE, val |-> FALSE]
        ELSE IF dm.slavesState = "unlistable" THEN [exc |-> TRUE, val |-> FALSE]
        ELSE [exc |-> FALSE,
              val |-> \E slave_name \in dm.slaves : SlaveMatchesBlock(slave_name, block_name)]

Hyphen == <<"-">>
Escaped040 == <<"\\", "0", "4", "0">>

\* s.replace("\\040", " ")
RECURSIVE Replace040(_)
Replace040(s) ==
    IF s = <<>> THEN <<>>
    ELSE IF StartsWith(s, Escaped040) THEN <<" ">> \o Replace040(SubSeq(s, 5, Len(s)))
    ELSE <<Head(s)>> \o Replace040(Tail(s))

\* _parse_mountinfo_line(line): None, or Some of (major_minor, mount_point,
\* device_path).  A line is held as the list line.split() yields.
ParseMountinfoLine(parts) ==
    LET hyphen == IndexOf(parts, Hyphen)
    IN  IF Len(parts) < 10 THEN None
        ELSE Some([major_minor |-> parts[3],
                   mount_point |-> Replace040(parts[5]),
                   device_path |-> IF hyphen # 0 /\ hyphen + 1 < Len(parts)
                                   THEN parts[hyphen + 2] ELSE <<>>])

\* The loop of get_mount_points from line i on, result holding the mount
\* points appended so far.  An OSError from the match of one line leaves the
\* loop through the except clause of line 203.
RECURSIVE MountLoop(_, _, _, _, _)
MountLoop(k, block_name, dev_numbers, i, result) ==
    IF i > Len(k.mounts) THEN result
    ELSE LET parsed == ParseMountinfoLine(k.mounts[i])
             p == parsed[1]
             under_dev == StartsWith(p.device_path, DevPrefix)
             dm == DmDeviceBackedByBlock(k, p.device_path, block_name)
         IN  IF parsed = None THEN MountLoop(k, block_name, dev_numbers, i + 1, result)
             ELSE IF p.major_minor \in dev_numbers
                     \/ (under_dev /\ DevicePathMatchesBlock(k, p.device_path, block_name))
                  THEN MountLoop(k, block_name, dev_numbers, i + 1,
                                 Append(result, p.mount_point))
             ELSE IF under_dev /\ dm.exc THEN result
             ELSE IF under_dev /\ dm.val
                  THEN MountLoop(k, block_name, dev_numbers, i + 1,
                                 Append(result, p.mount_point))
             ELSE MountLoop(k, block_name, dev_numbers, i + 1, result)

\* get_mount_points(block_name): the list of mount points; raises when
\* _get_block_dev_numbers does.
GetMountPoints(k, block_name) ==
    LET dev_numbers == GetBlockDevNumbers(k, block_name)
    IN  IF dev_numbers.exc THEN [exc |-> TRUE, val |-> <<>>]
        ELSE IF k.mountsState = "absent" THEN [exc |-> FALSE, val |-> <<>>]
        ELSE IF k.mountsState = "unreadable" THEN [exc |-> FALSE, val |-> <<>>]
        ELSE [exc |-> FALSE, val |-> MountLoop(k, block_name, dev_numbers.val, 1, <<>>)]

\* The loop of get_usb_storage_speeds over the entries SYS_BLOCK.iterdir() yields.
RECURSIVE SpeedLoop(_, _, _)
SpeedLoop(k, i, result) ==
    IF i > Len(k.registry) THEN result
    ELSE LET name == k.registry[i]
             usb_path == BlockDeviceUsbPath(k, name)
         IN  IF ~BlockIsDir(k, name) THEN SpeedLoop(k, i + 1, result)
             ELSE IF usb_path = None THEN SpeedLoop(k, i + 1, result)
             ELSE SpeedLoop(k, i + 1,
                            Append(result, [name |-> name,
                                            speed |-> ReadSpeedMbps(k, usb_path[1])]))

\* get_usb_storage_speeds(): the list of (name, speed); raises when
\* SYS_BLOCK.iterdir() does.
GetUsbStorageSpeeds(k) ==
    IF k.sysBlock = "absent" THEN [exc |-> FALSE, val |-> <<>>]
    ELSE IF k.sysBlock = "unlistable" THEN [exc |-> TRUE, val |-> <<>>]
    ELSE [exc |-> FALSE, val |-> SpeedLoop(k, 1, <<>>)]

(***************************** the tray ************************************)
\* The loop of _menu_state from device i on.
RECURSIVE MenuStateLoop(_, _, _, _)
MenuStateLoop(k, devs, i, rows) ==
    IF i > Len(devs) THEN [exc |-> FALSE, val |-> rows]
    ELSE LET mounts == GetMountPoints(k, devs[i].name)
         IN  IF mounts.exc THEN [exc |-> TRUE, val |-> rows]
             ELSE MenuStateLoop(k, devs, i + 1,
                                Append(rows, [name |-> devs[i].name,
                                              speed |-> devs[i].speed,
                                              mounts |-> Sorted(mounts.val)]))

\* _menu_state(devices): the tuple of (name, speed, sorted mount points).
MenuState(k, devs) == MenuStateLoop(k, devs, 1, <<>>)

Item(label, enabled) == [type |-> "item", label |-> label, enabled |-> enabled]
Separator == [type |-> "separator", label |-> <<>>, enabled |-> TRUE]
NoUsbStorage ==
    <<"N", "o", " ", "U", "S", "B", " ", "s", "t", "o", "r", "a", "g", "e">>
Quit == <<"Q", "u", "i", "t">>

\* The device rows of _get_menu_spec from device i on.
RECURSIVE MenuSpecLoop(_, _, _, _)
MenuSpecLoop(k, devs, i, spec) ==
    IF i > Len(devs) THEN [exc |-> FALSE, val |-> spec]
    ELSE LET mounts == GetMountPoints(k, devs[i].name)
             label == devs[i].name \o <<":", " ">> \o FormatSpeed(devs[i].speed)
         IN  IF mounts.exc THEN [exc |-> TRUE, val |-> spec]
             ELSE MenuSpecLoop(k, devs, i + 1,
                    Append(spec,
                           Item(IF mounts.val # <<>>
                                THEN label \o <<" ", EmDash, " ">> \o Join(mounts.val)
                                ELSE label,
                                FALSE)))

\* _get_menu_spec(devices): device rows, separator, Quit.
GetMenuSpec(k, devs) ==
    LET rows == IF devs = <<>>
                THEN [exc |-> FALSE, val |-> <<Item(NoUsbStorage, FALSE)>>]
                ELSE MenuSpecLoop(k, devs, 1, <<>>)
    IN  [exc |-> rows.exc, val |-> rows.val \o <<Separator, Item(Quit, TRUE)>>]

\* _build_gtk_menu(spec): one widget per spec entry, with its label and
\* sensitivity.
BuildGtkMenu(spec) ==
    [i \in 1..Len(spec) |->
        IF spec[i].type = "separator"
        THEN [widget |-> "SeparatorMenuItem", label |-> <<>>, sensitive |-> TRUE]
        ELSE [widget |-> "MenuItem", label |-> spec[i].label,
              sensitive |-> spec[i].enabled]]

(***************************** kernel states *******************************)
sda == <<"s", "d", "a">>
sda1 == <<"s", "d", "a", "1">>
sdb == <<"s", "d", "b">>
dm0 == <<"d", "m", "-", "0">>

Root == <<"/">>
\* Resolved targets of /sys/block/<name>/device, as Path.parts.
UsbTargetA == <<Root, <<"s", "y", "s">>, <<"u", "s", "b", "1">>, <<"1", "-", "1">>, <<"h", "6">>>>
UsbTargetB == <<Root, <<"s", "y", "s">>, <<"u", "s", "b", "2">>, <<"2", "-", "3">>, <<"h", "7">>>>
\* An internal disk: no usb<N> segment.
AtaTarget == <<Root, <<"s", "y", "s">>, <<"a", "t", "a", "1">>, <<"h", "0">>>>
\* usb<N> is the last segment: nothing follows it.
UsbLastTarget == <<Root, <<"s", "y", "s">>, <<"u", "s", "b", "1">>>>
\* "usb" with no digit after it.
UsbNoDigitTarget == <<Root, <<"u", "s", "b">>, <<"1", "-", "1">>>>
LinkTargets == {UsbTargetA, UsbTargetB, AtaTarget, UsbLastTarget, UsbNoDigitTarget}

BusA == <<"1", "-", "1">>
BusB == <<"2", "-", "3">>

Speed5000 == File("ok", <<"5", "0", "0", "0", "\n">>)
Speed480 == File("ok", <<"4", "8", "0", "\n">>)
\* What the kernel reports for a low-speed device: not an integer.
SpeedLow == File("ok", <<"1", ".", "5", "\n">>)
SpeedFiles == {Speed5000, Speed480, SpeedLow, File("unreadable", <<>>), NoFile}

Dev80 == <<"8", ":", "0">>
Dev81 == <<"8", ":", "1">>
Dev816 == <<"8", ":", "1", "6">>
Dev2530 == <<"2", "5", "3", ":", "0">>
DevText(mm) == File("ok", mm \o <<"\n">>)

Child(name, kind, dev) == [name |-> name, kind |-> kind, dev |-> dev]

DiskEntry(target, mm, children) ==
    [kind |-> "dir", listable |-> TRUE, device |-> DeviceLink("ok", target),
     dev |-> DevText(mm), children |-> children, slavesState |-> "none", slaves |-> {}]

\* /sys/block/sda: a disk with one partition, sda1, and its queue directory.
SdaEntry(target) ==
    DiskEntry(target, Dev80,
              {Child(sda1, "dir", DevText(Dev81)),
               Child(<<"q", "u", "e", "u", "e">>, "dir", NoFile)})

\* /sys/block/sdb: a disk with no partition.
SdbEntry(target) == DiskEntry(target, Dev816, {})

\* /sys/block/dm-0: a device-mapper volume over sda1.
DmEntry ==
    [kind |-> "dir", listable |-> TRUE, device |-> NoLink, dev |-> DevText(Dev2530),
     children |-> {}, slavesState |-> "ok", slaves |-> {sda1}]

DevSda1 == DevPrefix \o sda1
DevRoot == DevPrefix \o <<"r", "o", "o", "t">>
DevMapperV == DevPrefix \o <<"m", "a", "p", "p", "e", "r", "/", "v">>
DevDm0 == DevPrefix \o dm0

RW == <<"r", "w">>
Ext4 == <<"e", "x", "t", "4">>
MntA == <<"/", "a">>
MntV == <<"/", "v">>
MntBC == <<"/", "b", "\\", "0", "4", "0", "c">>
MntT == <<"/", "t">>
MntN == <<"/", "n">>

\* Lines of /proc/self/mountinfo, each as the list its split() yields:
\* id, parent, major:minor, root, mount point, options, optional fields, "-",
\* filesystem type, source, super options.
\* sda1 mounted at /a (one optional field).
LineSda1 == <<<<"3", "6">>, <<"2", "5">>, Dev81, Root, MntA, RW,
              <<"m", ":", "1">>, Hyphen, Ext4, DevSda1, RW>>
\* The mapped volume /dev/mapper/v mounted at /v.
LineVault == <<<<"3", "7">>, <<"2", "5">>, Dev2530, Root, MntV, RW,
               Hyphen, Ext4, DevMapperV, RW>>
\* sda1 mounted at "/b c" under the source name /dev/root.
LineRoot == <<<<"3", "8">>, <<"2", "5">>, Dev81, Root, MntBC, RW,
              Hyphen, Ext4, DevRoot, RW>>
\* A tmpfs whose source is the word dm-0.
LineTmpfs == <<<<"3", "9">>, <<"2", "5">>, <<"0", ":", "4", "0">>, Root, MntT, RW,
               Hyphen, <<"t", "m", "p", "f", "s">>, dm0, RW>>
\* Ten fields and no "-": the source is absent; the device number is sda's.
LineNoSource == <<<<"4", "0">>, <<"2", "5">>, Dev80, Root, MntN, RW,
                  RW, RW, RW, RW>>
\* Fewer than ten fields.
LineShort == <<<<"4", "1">>, <<"2", "5">>, Dev81, Root, MntA>>
MountLines == {LineSda1, LineVault, LineRoot, LineTmpfs, LineNoSource, LineShort}

EmptyKernel ==
    [sysBlock |-> "ok", registry |-> <<>>, block |-> <<>>,
     usb |-> (BusA :> Speed5000 @@ BusB :> Speed480),
     symlinks |-> <<>>, mountsState |-> "ok", mounts |-> <<>>]

\* One USB disk, its partition mounted.
StickKernel ==
    [EmptyKernel EXCEPT !.registry = <<sda>>,
                        !.block = (sda :> SdaEntry(UsbTargetA)),
                        !.mounts = <<LineSda1>>]

\* One USB disk carrying an encrypted volume: dm-0 over sda1, mounted at /v
\* through /dev/mapper/v; sda1 itself is not mounted.
VaultKernel ==
    [EmptyKernel EXCEPT !.registry = <<sda, dm0>>,
                        !.block = (sda :> SdaEntry(UsbTargetA) @@ dm0 :> DmEntry),
                        !.symlinks = (DevMapperV :> [ok |-> TRUE, target |-> DevDm0]),
                        !.mounts = <<LineVault>>]

\* An internal disk and a USB disk, the USB partition mounted twice.
TwoDiskKernel ==
    [EmptyKernel EXCEPT !.registry = <<sdb, sda>>,
                        !.block = (sda :> SdaEntry(UsbTargetA) @@ sdb :> SdbEntry(AtaTarget)),
                        !.mounts = <<LineSda1, LineRoot>>]

InitKernels == {EmptyKernel, StickKernel, VaultKernel, TwoDiskKernel}

(***************************** the poll tick *******************************)
Init ==
    /\ kernel \in InitKernels
    /\ pc = "idle"
    /\ devices = <<>>
    /\ lastMenuState = None
    /\ menu = None
    /\ ticks = 0
    /\ changes = 0
    /\ arg = <<>>
    /\ ret = <<>>

\* update_menu, line 345: devices = get_usb_storage_speeds().  An exception
\* leaves update_menu: at start-up (line 359) it ends run(), in the timer
\* callback the timer is dropped; either way no tick follows.
UpdateMenuScan ==
    /\ pc = "idle"
    /\ ticks < MaxTicks
    /\ ticks' = ticks + 1
    /\ LET r == GetUsbStorageSpeeds(kernel)
       IN  IF r.exc
           THEN pc' = "faulted" /\ UNCHANGED devices
           ELSE pc' = "scanned" /\ devices' = r.val
    /\ UNCHANGED <<kernel, lastMenuState, menu, changes, arg, ret>>

\* update_menu, lines 346-349: state = _menu_state(devices); return when it
\* equals _last_menu_state[0], else store it.
UpdateMenuCompare ==
    /\ pc = "scanned"
    /\ LET state == MenuState(kernel, devices)
       IN  IF state.exc
           THEN pc' = "faulted" /\ UNCHANGED lastMenuState
           ELSE IF Some(state.val) = lastMenuState
           THEN pc' = "idle" /\ UNCHANGED lastMenuState
           ELSE pc' = "changed" /\ lastMenuState' = Some(state.val)
    /\ UNCHANGED <<kernel, devices, menu, ticks, changes, arg, ret>>

\* update_menu, lines 352-356: spec = _get_menu_spec(devices);
\* indicator.set_menu(_build_gtk_menu(spec)).
UpdateMenuRedraw ==
    /\ pc = "changed"
    /\ LET spec == GetMenuSpec(kernel, devices)
       IN  IF spec.exc
           THEN pc' = "faulted" /\ UNCHANGED menu
           ELSE pc' = "idle" /\ menu' = Some(BuildGtkMenu(spec.val))
    /\ UNCHANGED <<kernel, devices, lastMenuState, ticks, changes, arg, ret>>

(***************************** the kernel changes **************************)
Changes(k) ==
    /\ changes < MaxChanges
    /\ changes' = changes + 1
    /\ kernel' = k
    /\ UNCHANGED <<pc, devices, lastMenuState, menu, ticks, arg, ret>>

Without(f, key) == [x \in DOMAIN f \ {key} |-> f[x]]
InSeq(xs, x) == \E i \in 1..Len(xs) : xs[i] = x
Present(name) == name \in DOMAIN kernel.block

\* A disk is attached: its /sys/block entry appears.
Plug(name, target) ==
    /\ ~Present(name)
    /\ Changes([kernel EXCEPT
           !.registry = IF InSeq(@, name) THEN @ ELSE Append(@, name),
           !.block = (name :> (IF name = sda THEN SdaEntry(target) ELSE SdbEntry(target)))
                     @@ @])

\* A disk is removed.  listed: the removal falls inside a listing of
\* /sys/block that already holds the name, so iterdir() still yields it.
Unplug(name, listed) ==
    /\ Present(name)
    /\ Changes([kernel EXCEPT
           !.registry = IF listed THEN @ ELSE SelectSeq(@, LAMBDA n : n # name),
           !.block = Without(@, name)])

\* A block device's directory stops being listable.
DirFails(name) ==
    /\ Present(name)
    /\ kernel.block[name].listable
    /\ Changes([kernel EXCEPT !.block[name].listable = FALSE])

\* A block device's dev file goes away or stops being readable.
DevFileFails(name, state) ==
    /\ Present(name)
    /\ kernel.block[name].dev.state = "ok"
    /\ Changes([kernel EXCEPT !.block[name].dev = File(state, <<>>)])

\* A block device's device link goes away or stops resolving.
LinkFails(name, state) ==
    /\ Present(name)
    /\ kernel.block[name].device.state = "ok"
    /\ Changes([kernel EXCEPT !.block[name].device = DeviceLink(state, <<>>)])

\* The speed file of a bus position changes: a renegotiated link, a file
\* that is gone or unreadable.
SpeedChanges(bus, file) ==
    /\ kernel.usb[bus] # file
    /\ Changes([kernel EXCEPT !.usb[bus] = file])

\* /sys/block goes away or stops being listable.
RegistryFails(state) ==
    /\ kernel.sysBlock = "ok"
    /\ Changes([kernel EXCEPT !.sysBlock = state])

RegistryBack ==
    /\ kernel.sysBlock # "ok"
    /\ Changes([kernel EXCEPT !.sysBlock = "ok"])

\* An encrypted volume over sda1 is opened: dm-0 and /dev/mapper/v appear.
MapVolume ==
    /\ Present(sda)
    /\ ~Present(dm0)
    /\ Changes([kernel EXCEPT
           !.registry = IF InSeq(@, dm0) THEN @ ELSE Append(@, dm0),
           !.block = (dm0 :> DmEntry) @@ @,
           !.symlinks = (DevMapperV :> [ok |-> TRUE, target |-> DevDm0])])

UnmapVolume ==
    /\ Present(dm0)
    /\ Changes([kernel EXCEPT
           !.registry = SelectSeq(@, LAMBDA n : n # dm0),
           !.block = Without(@, dm0),
           !.symlinks = <<>>])

\* dm-0's slaves directory goes away or stops being listable.
SlavesFail(state) ==
    /\ Present(dm0)
    /\ kernel.block[dm0].slavesState = "ok"
    /\ Changes([kernel EXCEPT !.block[dm0].slavesState = state])

\* /dev/mapper/v stops resolving.
SymlinkFails ==
    /\ DevMapperV \in DOMAIN kernel.symlinks
    /\ kernel.symlinks[DevMapperV].ok
    /\ Changes([kernel EXCEPT !.symlinks[DevMapperV].ok = FALSE])

\* A filesystem is mounted: its line is added at the end of the mount table.
Mount(line) ==
    /\ kernel.mountsState = "ok"
    /\ Len(kernel.mounts) < MaxMounts
    /\ ~InSeq(kernel.mounts, line)
    /\ Changes([kernel EXCEPT !.mounts = Append(@, line)])

Unmount(i) ==
    /\ kernel.mountsState = "ok"
    /\ i \in 1..Len(kernel.mounts)
    /\ Changes([kernel EXCEPT
           !.mounts = SubSeq(@, 1, i - 1) \o SubSeq(@, i + 1, Len(@))])

\* /proc/self/mountinfo goes away or stops being readable.
MountTableFails(state) ==
    /\ kernel.mountsState = "ok"
    /\ Changes([kernel EXCEPT !.mountsState = state])

MountTableBack ==
    /\ kernel.mountsState # "ok"
    /\ Changes([kernel EXCEPT !.mountsState = "ok"])

Disks == {sda, sdb}

Next ==
    \/ UpdateMenuScan
    \/ UpdateMenuCompare
    \/ UpdateMenuRedraw
    \/ \E name \in Disks, target \in LinkTargets : Plug(name, target)
    \/ \E name \in Disks, listed \in BOOLEAN : Unplug(name, listed)
    \/ \E name \in Disks \cup {dm0} : DirFails(name)
    \/ \E name \in Disks, state \in {"absent", "unreadable"} : DevFileFails(name, state)
    \/ \E name \in Disks, state \in {"missing", "error"} : LinkFails(name, state)
    \/ \E bus \in {BusA, BusB}, file \in SpeedFiles : SpeedChanges(bus, file)
    \/ \E state \in {"absent", "unlistable"} : RegistryFails(state)
    \/ RegistryBack
    \/ MapVolume
    \/ UnmapVolume
    \/ \E state \in {"none", "unlistable"} : SlavesFail(state)
    \/ SymlinkFails
    \/ \E line \in MountLines : Mount(line)
    \/ \E i \in 1..MaxMounts : Unmount(i)
    \/ \E state \in {"absent", "unreadable"} : MountTableFails(state)
    \/ MountTableBack

Spec == Init /\ [][Next]_vars

(***************************** format_speed alone **************************)
SpeedInputs == {None} \cup {Some(n) : n \in (0 - 2)..MaxMbps}

InitFormat ==
    /\ kernel = EmptyKernel
    /\ pc = "call"
    /\ devices = <<>>
    /\ lastMenuState = None
    /\ menu = None
    /\ ticks = 0
    /\ changes = 0
    /\ arg \in SpeedInputs
    /\ ret = <<>>

CallFormatSpeed ==
    /\ pc = "call"
    /\ pc' = "return"
    /\ ret' = FormatSpeed(arg)
    /\ UNCHANGED <<kernel, devices, lastMenuState, menu, ticks, changes, arg>>

NextFormat == CallFormatSpeed

SpecFormat == InitFormat /\ [][NextFormat]_vars

(***************************** the name tests alone ************************)
NameChars == {"s", "d", "b", "1"}
NameStrings == UNION {[1..n -> NameChars] : n \in 1..MaxNameLen}
sd == <<"s", "d">>
sdb1 == <<"s", "d", "b", "1">>
MatchBlocks == {sd, sdb, sdb1, <<"s">>, <<"1">>}

\* A kernel in which `name` is, at once, a directory under /sys/block/<block>
\* with a dev file, the node /dev/<name>, and the one slave of dm-0.
MatchKernel(name, block) ==
    [EmptyKernel EXCEPT
        !.registry = <<block, dm0>>,
        !.block = (block :> DiskEntry(UsbTargetA, Dev80, {Child(name, "dir", DevText(Dev81))}))
                  @@ (dm0 :> [DmEntry EXCEPT !.slaves = {name}])]

InitMatch ==
    /\ arg \in [name : NameStrings, block : MatchBlocks]
    /\ kernel = MatchKernel(arg.name, arg.block)
    /\ pc = "path"
    /\ devices = <<>>
    /\ lastMenuState = None
    /\ menu = None
    /\ ticks = 0
    /\ changes = 0
    /\ ret = [path |-> FALSE, dm |-> FALSE, numbers |-> {}]

CallDevicePathMatchesBlock ==
    /\ pc = "path"
    /\ pc' = "dm"
    /\ ret' = [ret EXCEPT !.path =
                  DevicePathMatchesBlock(kernel, DevPrefix \o arg.name, arg.block)]
    /\ UNCHANGED <<kernel, devices, lastMenuState, menu, ticks, changes, arg>>

CallDmDeviceBackedByBlock ==
    /\ pc = "dm"
    /\ pc' = "numbers"
    /\ ret' = [ret EXCEPT !.dm = DmDeviceBackedByBlock(kernel, DevDm0, arg.block).val]
    /\ UNCHANGED <<kernel, devices, lastMenuState, menu, ticks, changes, arg>>

CallGetBlockDevNumbers ==
    /\ pc = "numbers"
    /\ pc' = "return"
    /\ ret' = [ret EXCEPT !.numbers = GetBlockDevNumbers(kernel, arg.block).val]
    /\ UNCHANGED <<kernel, devices, lastMenuState, menu, ticks, changes, arg>>

NextMatch ==
    \/ CallDevicePathMatchesBlock
    \/ CallDmDeviceBackedByBlock
    \/ CallGetBlockDevNumbers

SpecMatch == InitMatch /\ [][NextMatch]_vars

(***************************** the claims **********************************)
BlockNames == DOMAIN kernel.block

\* The mount-table entries get_mount_points reads: the lines that parse.
Entries == {i \in 1..Len(kernel.mounts) : ParseMountinfoLine(kernel.mounts[i]) # None}
Entry(i) == ParseMountinfoLine(kernel.mounts[i])[1]

\* C1: whatever has disappeared or become unreadable, get_usb_storage_speeds
\* and get_mount_points return a list, and no exception reaches the caller of
\* the poll tick.
C1_NoExceptionLeavesThePoll ==
    /\ ~GetUsbStorageSpeeds(kernel).exc
    /\ \A d \in BlockNames : ~GetMountPoints(kernel, d).exc
    /\ pc # "faulted"

\* One entry matched on its own: a failure while matching it counts as no match.
EntryMatchesAlone(d, i) ==
    LET dev_numbers == GetBlockDevNumbers(kernel, d).val
        under_dev == StartsWith(Entry(i).device_path, DevPrefix)
        dm == DmDeviceBackedByBlock(kernel, Entry(i).device_path, d)
    IN  \/ Entry(i).major_minor \in dev_numbers
        \/ under_dev /\ DevicePathMatchesBlock(kernel, Entry(i).device_path, d)
        \/ under_dev /\ ~dm.exc /\ dm.val

\* C2: in get_mount_points a failure met while matching one mount-table entry
\* affects that entry only: every other entry that matches the device, before
\* or after it, has its mount point in the returned list.
C2_EntryFailureStaysLocal ==
    \A d \in BlockNames :
        (kernel.mountsState = "ok" /\ ~GetBlockDevNumbers(kernel, d).exc) =>
            \A i \in Entries :
                EntryMatchesAlone(d, i) =>
                    InSeq(GetMountPoints(kernel, d).val, Entry(i).mount_point)

\* A resolved device-link path with a usb<digits> segment and a segment after it.
HasUsbSegment(parts) ==
    \E i \in 1..(Len(parts) - 1) :
        /\ Len(parts[i]) >= 4
        /\ SubSeq(parts[i], 1, 3) = <<"u", "s", "b">>
        /\ \A j \in 4..Len(parts[i]) : parts[i][j] \in {Digits[n] : n \in 1..10}

ResolvesToUsb(name) ==
    /\ BlockIsDir(kernel, name)
    /\ kernel.block[name].device.state = "ok"
    /\ HasUsbSegment(kernel.block[name].device.parts)

Occurrences(devs, name) == Cardinality({i \in 1..Len(devs) : devs[i].name = name})

\* C3: a block device whose device link is missing, unresolvable or without
\* a usb<digits> segment followed by another resolves to no USB path and is
\* not in the output of get_usb_storage_speeds; every directory entry of
\* /sys/block that resolves to a USB path is in it exactly once.
C3_ExactlyTheUsbDevices ==
    /\ \A name \in BlockNames :
          ~ResolvesToUsb(name) =>
              /\ BlockDeviceUsbPath(kernel, name) = None
              /\ Occurrences(GetUsbStorageSpeeds(kernel).val, name) = 0
    /\ \A name \in BlockNames :
          (InSeq(kernel.registry, name) /\ ResolvesToUsb(name)) =>
              Occurrences(GetUsbStorageSpeeds(kernel).val, name) = 1

\* d, or d followed by digits only.
IsNumberedPartition(n, d) ==
    /\ Len(n) > Len(d)
    /\ SubSeq(n, 1, Len(d)) = d
    /\ \A j \in (Len(d) + 1)..Len(n) : n[j] \in {Digits[x] : x \in 1..10}

\* C4: a mount-table entry whose backing device path (a path under /dev/)
\* resolves to a name beginning with dm-, the slaves of that dm device
\* holding d or a numbered partition of d, has its mount point in
\* get_mount_points(d), whether or not d or the partition is mounted itself.
C4_DmBackedMountIsListed ==
    \A d \in BlockNames : \A i \in Entries :
        LET r == ResolveName(kernel, Entry(i).device_path)
        IN  ( /\ kernel.mountsState = "ok"
              /\ StartsWith(Entry(i).device_path, DevPrefix)
              /\ ~r.exc
              /\ StartsWith(r.val, DmPrefix)
              /\ BlockIsDir(kernel, r.val)
              /\ kernel.block[r.val].slavesState = "ok"
              /\ \E s \in kernel.block[r.val].slaves : s = d \/ IsNumberedPartition(s, d) )
            => InSeq(GetMountPoints(kernel, d).val, Entry(i).mount_point)

\* C5: a mount-table entry whose major:minor is in the set
\* _get_block_dev_numbers(d) collects has its mount point in
\* get_mount_points(d), whatever its source field and the other two rules say.
C5_DeviceNumberMatchIsListed ==
    \A d \in BlockNames : \A i \in Entries :
        ( /\ kernel.mountsState = "ok"
          /\ ~GetBlockDevNumbers(kernel, d).exc
          /\ Entry(i).major_minor \in GetBlockDevNumbers(kernel, d).val )
        => InSeq(GetMountPoints(kernel, d).val, Entry(i).mount_point)

\* n is d followed by a non-empty remainder whose first character is a digit.
DigitFollowsPrefix(n, d) ==
    \E r \in 1..Len(n) :
        /\ Len(n) = Len(d) + r
        /\ \A j \in 1..Len(d) : n[j] = d[j]
        /\ n[Len(d) + 1] \in {Digits[x] : x \in 1..10}

\* C6 (as amended): in the three places a name n is related to a device d,
\* n counts as a partition of d exactly when n is d followed by a non-empty
\* remainder whose first character is a digit; the resolved-path and slave
\* tests also take n = d, the device itself.  "sdb1" is not related to "sd".
C6_PartitionIsPrefixThenDigit ==
    pc = "return" =>
        /\ ret.path = (arg.name = arg.block \/ DigitFollowsPrefix(arg.name, arg.block))
        /\ ret.dm = (arg.name = arg.block \/ DigitFollowsPrefix(arg.name, arg.block))
        /\ (Dev81 \in ret.numbers) = DigitFollowsPrefix(arg.name, arg.block)
        /\ (arg.name = sdb1 /\ arg.block = sd) =>
              (~ret.path /\ ~ret.dm /\ Dev81 \notin ret.numbers)

\* C6 as claimed: ... exactly when the remainder is non-empty and entirely numeric.
C6_PartitionIsPrefixThenNumber ==
    pc = "return" =>
        /\ ret.path = (arg.name = arg.block \/ IsNumberedPartition(arg.name, arg.block))
        /\ ret.dm = (arg.name = arg.block \/ IsNumberedPartition(arg.name, arg.block))
        /\ (Dev81 \in ret.numbers) = IsNumberedPartition(arg.name, arg.block)

\* The three tests were run on the partition sdb1 of sdb and on sdb1 against sd.
C6_Witness ==
    /\ pc = "return"
    /\ arg.name = sdb1
    /\ arg.block = sdb
    /\ ret.path /\ ret.dm /\ Dev81 \in ret.numbers

\* C7: with the mount table missing or unreadable get_mount_points returns the
\* empty list for every device; with /sys/block missing or unreadable
\* get_usb_storage_speeds returns the empty list and get_mount_points returns;
\* with a device's own directory unreadable get_mount_points returns.
C7_UnreadableGivesEmptyResult ==
    /\ kernel.mountsState # "ok" =>
          \A d \in BlockNames : GetMountPoints(kernel, d) = [exc |-> FALSE, val |-> <<>>]
    /\ kernel.sysBlock # "ok" =>
          /\ GetUsbStorageSpeeds(kernel) = [exc |-> FALSE, val |-> <<>>]
          /\ \A d \in BlockNames : ~GetMountPoints(kernel, d).exc
    /\ \A d \in BlockNames :
          ~kernel.block[d].listable => ~GetMountPoints(kernel, d).exc

Reordered(k) ==
    {[k EXCEPT !.mounts = [i \in 1..Len(k.mounts) |-> k.mounts[p[i]]]] :
        p \in Permutations(1..Len(k.mounts))}

IsSortedStrings(xs) == \A i \in 1..(Len(xs) - 1) : ~StrLess(xs[i + 1], xs[i])
Elements(xs) == {xs[i] : i \in 1..Len(xs)}

\* C9: the snapshot is the sequence of (name, speed, sorted mount points) in
\* enumeration order; snapshots of kernel states that differ only in the order
\* of the mount-table lines are equal; snapshots are unequal whenever the
\* device sequence, a speed or a device's set of mount points differs.
C9_SnapshotEquality ==
    LET devs == GetUsbStorageSpeeds(kernel).val
        snap == MenuState(kernel, devs)
    IN  ~snap.exc =>
          /\ Len(snap.val) = Len(devs)
          /\ \A i \in 1..Len(devs) :
                /\ snap.val[i].name = devs[i].name
                /\ snap.val[i].speed = devs[i].speed
                /\ IsSortedStrings(snap.val[i].mounts)
                /\ Elements(snap.val[i].mounts)
                     = Elements(GetMountPoints(kernel, devs[i].name).val)
          /\ \A k2 \in Reordered(kernel) : MenuState(k2, devs) = snap
          /\ lastMenuState = Some(snap.val) =>
                /\ Len(lastMenuState[1]) = Len(devs)
                /\ \A i \in 1..Len(devs) :
                      /\ lastMenuState[1][i].name = devs[i].name
                      /\ lastMenuState[1][i].speed = devs[i].speed
                      /\ Elements(lastMenuState[1][i].mounts)
                           = Elements(GetMountPoints(kernel, devs[i].name).val)

\* C10: the menu changes only on a tick whose snapshot differs from the stored
\* one, and a tick that skips the redraw leaves a menu equal to the one a
\* redraw from the state read on that tick would show.
C10_SkippingIsOnlyAnOptimization ==
    [][ /\ menu' # menu => pc = "changed"
        /\ (pc = "scanned" /\ pc' = "idle") =>
              menu' = Some(BuildGtkMenu(GetMenuSpec(kernel', devices').val)) ]_vars

=============================================================================
